---- MODULE Spec2Model ----
(***************************************************************************)
(* PerPacketLoadBalancer (src/internet/model/per-packet-load-balancer.cc): *)
(* an Ipv4StaticRouting subclass whose RouteOutput picks, per packet, one  *)
(* of the interfaces of the static routes that match the destination, in   *)
(* round-robin order.                                                      *)
(*                                                                         *)
(* Addresses and masks are small naturals read as bit patterns; an         *)
(* interface index is the spec's pathId.                                   *)
(***************************************************************************)
EXTENDS Integers, Sequences, FiniteSets, TLC

\* ------------------------------------------------------------- bounds

\* Largest address / mask bit pattern of the table lookups taken on their
\* own (addresses and masks are 0..MaxAddr).
MaxAddr == 3
\* Largest table of those lookups.
LookupMaxRoutes == 2
\* Largest number of server endpoints of the relay.
MaxServers == 2
\* Largest number of entries the static routing table holds.
MaxRoutes == 3
\* Largest number of selecting RouteOutput calls counted in a fixed run.
MaxSelections == 5
\* Largest table when the next hop of a route is chosen freely.
MaxViaRoutes == 2

Addrs == 0 .. MaxAddr
\* The destinations of the packets routed in the engine runs.
PacketDests == {1, 2, 3}
\* The balancer's interfaces that lead to a router (interface 0 is the client
\* link).
Ifaces == {1, 2, 3}

\* The interfaces of the routes of the lookups taken on their own.
LookupIfaces == {1, 2}

\* The routes installed in the engine runs, as <<destination, mask>>: the
\* network 1x (mask 10) and the host 11 inside it (mask 11).
InstalledRoutes == {<<2, 2>>, <<3, 3>>}
\* The values written to the RoundRobinIndex attribute.
AttributeValues == {0, 1, 2, 3}

\* Ipv4Address::GetZero ()
ZeroAddress == 0
\* The source of an Ipv4Route on which SetSource was never called.
UnsetAddress == -1

\* The outcome of a read outside the vector that ends the process.
Crashed == -2

\* The router at the far end of interface i's link: the gateway the
\* experiment installs for the route through interface i.
GatewayOn(i) == 100 + i
\* The balancer's own address 0 on interface i.
LocalAddress(i) == 200 + i

\* The next hops of the routes whose next hop is chosen freely: a link can
\* lead to more than one router.
NextHops == {GatewayOn(i) : i \in LookupIfaces}

VARIABLES
  routes,                   \* Ipv4StaticRouting's table, in GetRoute(i) order
  m_currentInterfaceIndex,  \* the round-robin cursor
  m_totalRoutes,            \* the modulus of the cursor
  ipv4Aggregated,           \* GetObject<Ipv4> () is non-null
  halted,                   \* the process has crashed
  last,                     \* the most recent RouteOutput call and its result
  prev,                     \* kind, dest, iface, oob of the call before it
  observePairs,             \* prev is recorded in this run
  attrWritten,              \* RoundRobinIndex was set through the attribute
  run,                      \* the fixed run: fresh engine, table unchanged
                            \* since the first call, every selecting call for
                            \* run.dest; run.length counts its selecting calls
                            \* and run.picks those that read each candidate
  lookup,                   \* the most recent GetRouteInterfacesTo on its own
  relayState,               \* the relay's lifecycle state
  clientEndpoint,           \* the relay's client-side endpoint, or NoEndpoint
  serverEndpoints,          \* the relay's server-side endpoints, in order
  relayCursor,              \* the relay selector's round-robin cursor
  lastStart,                \* the most recent start signal and its outcome
  arrival                   \* the most recent packet arrival and its outcome

engineVars == <<routes, m_currentInterfaceIndex, m_totalRoutes, ipv4Aggregated,
                halted, last, prev, observePairs, attrWritten, run>>
relayVars == <<relayState, clientEndpoint, serverEndpoints, relayCursor,
               lastStart, arrival>>
vars == <<engineVars, lookup, relayVars>>

\* ------------------------------------------------------ path table

\* Bitwise AND of two naturals.
RECURSIVE BitAnd(_, _)
BitAnd(a, b) ==
  IF a = 0 \/ b = 0 THEN 0
  ELSE (a % 2) * (b % 2) + 2 * BitAnd(a \div 2, b \div 2)

\* Ipv4Address::CombineMask
CombineMask(addr, mask) == BitAnd(addr, mask)

\* RouteMatches with the destination masked on both sides of the comparison.
RouteMatchesSelfCompare(route, dest) ==
  \/ route.dest = dest
  \/ CombineMask(dest, route.mask) = CombineMask(dest, route.mask)

\* RouteMatches without the comparison by network.
RouteMatchesExactOnly(route, dest) == route.dest = dest

\* The condition of the if in GetRouteInterfacesTo's loop.
RouteMatches(route, dest) ==
  \/ route.dest = dest
  \/ CombineMask(route.dest, route.mask) = CombineMask(dest, route.mask)

\* The loop of GetRouteInterfacesTo from index i on (1-based here).
RECURSIVE RouteInterfacesLoop(_, _, _, _)
RouteInterfacesLoop(rt, dest, i, interfaces) ==
  IF i > Len(rt) THEN interfaces
  ELSE RouteInterfacesLoop(rt, dest, i + 1,
         IF RouteMatches(rt[i], dest)
         THEN Append(interfaces, rt[i].interface)
         ELSE interfaces)

GetRouteInterfacesTo(rt, dest) == RouteInterfacesLoop(rt, dest, 1, <<>>)

\* The loop of GetGatewayForInterface from index i on.
RECURSIVE GatewayLoop(_, _, _, _)
GatewayLoop(rt, interface, dest, i) ==
  IF i > Len(rt) THEN ZeroAddress
  ELSE IF rt[i].interface = interface /\ RouteMatches(rt[i], dest)
       THEN rt[i].gateway
       ELSE GatewayLoop(rt, interface, dest, i + 1)

GetGatewayForInterface(rt, interface, dest) == GatewayLoop(rt, interface, dest, 1)

\* ------------------------------------------------------ RouteOutput

\* NoRoutes tested only until the route count is latched.
NoRoutesUntilLatched(interfaces) == Len(interfaces) = 0 /\ m_totalRoutes = 0

\* interfaces.empty ()
NoRoutes(interfaces) == Len(interfaces) = 0

\* LatchTotalRoutes following the candidate count of every call.
LatchTotalRoutesEveryCall(total, size) == size

\* if (m_totalRoutes == 0) m_totalRoutes = interfaces.size ();
LatchTotalRoutes(total, size) == IF total = 0 THEN size ELSE total

\* NextIndex leaving the cursor where it is.
NextIndexStay(index, total) == index

\* NextIndex advancing by two.
NextIndexSkip(index, total) == (index + 2) % total

\* m_currentInterfaceIndex = (m_currentInterfaceIndex + 1) % m_totalRoutes;
NextIndex(index, total) == (index + 1) % total

\* The values interfaces[index] can yield.  Inside the vector it is the
\* element; outside it the read is undefined: it yields some interface number
\* or the process crashes (Crashed).
SelectedInterfaces(interfaces, index) ==
  IF index < Len(interfaces) THEN {interfaces[index + 1]}
  ELSE Ifaces \cup {Crashed}

\* if (numAddresses > 0) rtentry->SetSource (ifAddr.GetLocal ());
RouteSource(numAddresses, interface) ==
  IF numAddresses > 0 THEN LocalAddress(interface) ELSE UnsetAddress

NoCall == [kind |-> "None", dest |-> -1, cands |-> <<>>, idx |-> 0,
           oob |-> FALSE, iface |-> 0, numAddresses |-> 0,
           source |-> UnsetAddress, gateway |-> ZeroAddress]

Brief(call) == [kind |-> call.kind, dest |-> call.dest, iface |-> call.iface,
                oob |-> call.oob]

\* The call reached the selection step (line 116).
Selected(call) == call.kind \in {"Route", "NoIpv4", "Crash"}

\* What is kept of a call once the table it looked at has changed.
Stale(call) == IF call.kind = "None" THEN call ELSE [NoCall EXCEPT !.kind = "Stale"]

NoRun == [fixed |-> FALSE, dest |-> -1, length |-> 0, picks |-> <<>>]

\* The counts of a run after a read at index of a candidate list of the
\* given size: a read inside the list counts for the candidate it reads.
CountPick(picks, size, index) ==
  LET counts == IF picks = <<>> THEN [i \in 1 .. size |-> 0] ELSE picks
  IN IF index < Len(counts) THEN [counts EXCEPT ![index + 1] = @ + 1] ELSE counts

\* What the next call records as the call before it.
Previous == IF observePairs THEN Brief(last) ELSE prev

EngineInit ==
  /\ routes = <<>>
  /\ m_currentInterfaceIndex = 0
  /\ m_totalRoutes = 0
  /\ ipv4Aggregated = FALSE
  /\ halted = FALSE
  /\ last = NoCall
  /\ prev = Brief(NoCall)
  /\ attrWritten = FALSE
  /\ run = [NoRun EXCEPT !.fixed = TRUE]

NoLookup == [called |-> FALSE, dest |-> -1, interfaces |-> <<>>]

NoEndpoint == [pathId |-> -1, realAddress |-> -1]
NoStart == [from |-> "None", ok |-> FALSE]
NoArrival == [kind |-> "None"]

RelayInit ==
  /\ relayState = "Created"
  /\ clientEndpoint = NoEndpoint
  /\ serverEndpoints = <<>>
  /\ relayCursor = 0
  /\ lastStart = NoStart
  /\ arrival = NoArrival

Init ==
  /\ EngineInit
  /\ observePairs = FALSE
  /\ lookup = NoLookup
  /\ RelayInit

\* The same engine, observed two calls at a time.
PairInit ==
  /\ EngineInit
  /\ observePairs = TRUE
  /\ lookup = NoLookup
  /\ RelayInit

\* Ipv4StaticRouting::AddNetworkRouteTo (network, mask, nextHop, interface),
\* as the experiment calls it: the next hop is the router on that interface.
AddNetworkRouteTo(network, mask, interface) ==
  LET route == [dest |-> network, mask |-> mask,
                gateway |-> GatewayOn(interface), interface |-> interface]
  IN /\ ~halted
     /\ Len(routes) < MaxRoutes
     /\ \A i \in 1 .. Len(routes) : routes[i] # route
     /\ routes' = Append(routes, route)
        /\ run' = IF last.kind = "None" THEN run ELSE NoRun
     /\ last' = Stale(last)
     /\ prev' = IF observePairs THEN Brief(Stale(prev)) ELSE prev
     /\ UNCHANGED <<m_currentInterfaceIndex, m_totalRoutes, ipv4Aggregated,
                    halted, observePairs, attrWritten, lookup, relayVars>>

\* Ipv4StaticRouting::RemoveRoute (index), inherited.
RemoveRoute(index) ==
  /\ ~halted
  /\ index \in 1 .. Len(routes)
  /\ routes' = [i \in 1 .. Len(routes) - 1 |->
                  IF i < index THEN routes[i] ELSE routes[i + 1]]
  /\ run' = IF last.kind = "None" THEN run ELSE NoRun
  /\ last' = Stale(last)
  /\ prev' = IF observePairs THEN Brief(Stale(prev)) ELSE prev
  /\ UNCHANGED <<m_currentInterfaceIndex, m_totalRoutes, ipv4Aggregated,
                 halted, observePairs, attrWritten, lookup, relayVars>>

\* SetAttribute ("RoundRobinIndex", UintegerValue (value))
SetRoundRobinIndex(value) ==
  /\ ~halted
  /\ m_currentInterfaceIndex' = value
  /\ attrWritten' = TRUE
  /\ run' = NoRun
  /\ UNCHANGED <<routes, m_totalRoutes, ipv4Aggregated, halted, last, prev,
                 observePairs, lookup, relayVars>>

\* The Ipv4 object is aggregated to the routing object.
AggregateIpv4 ==
  /\ ~halted
  /\ ~ipv4Aggregated
  /\ ipv4Aggregated' = TRUE
  /\ UNCHANGED <<routes, m_currentInterfaceIndex, m_totalRoutes, halted, last,
                 prev, observePairs, attrWritten, run, lookup, relayVars>>

\* RouteOutputFallback starting the rotation over.
RouteOutputFallbackResetting(dest) ==
  /\ ~halted
  /\ NoRoutes(GetRouteInterfacesTo(routes, dest))
  /\ last' = [NoCall EXCEPT !.kind = "Fallback", !.dest = dest,
                            !.idx = m_currentInterfaceIndex]
  /\ prev' = Previous
  /\ m_currentInterfaceIndex' = 0
  /\ UNCHANGED <<routes, m_totalRoutes,
                 ipv4Aggregated, halted, observePairs, attrWritten, run,
                 lookup, relayVars>>

\* RouteOutputFallback dropping the first table entry on its way.
RouteOutputFallbackRemoving(dest) ==
  /\ ~halted
  /\ NoRoutes(GetRouteInterfacesTo(routes, dest))
  /\ last' = [NoCall EXCEPT !.kind = "Fallback", !.dest = dest,
                            !.idx = m_currentInterfaceIndex]
  /\ prev' = Previous
  /\ routes' = IF Len(routes) = 0 THEN routes ELSE Tail(routes)
  /\ UNCHANGED <<m_currentInterfaceIndex, m_totalRoutes,
                 ipv4Aggregated, halted, observePairs, attrWritten, run,
                 lookup, relayVars>>

\* RouteOutput for a packet to dest that finds no route: the result is
\* Ipv4StaticRouting::RouteOutput's.
RouteOutputFallback(dest) ==
  /\ ~halted
  /\ NoRoutes(GetRouteInterfacesTo(routes, dest))
  /\ last' = [NoCall EXCEPT !.kind = "Fallback", !.dest = dest,
                            !.idx = m_currentInterfaceIndex]
  /\ prev' = Previous
  /\ UNCHANGED <<routes, m_currentInterfaceIndex, m_totalRoutes,
                 ipv4Aggregated, halted, observePairs, attrWritten, run,
                 lookup, relayVars>>

\* RouteOutput for a packet to dest that finds routes.  numAddresses is what
\* the Ipv4 object answers for the selected interface.
RouteOutputSelect(dest, numAddresses) ==
  LET interfaces == GetRouteInterfacesTo(routes, dest)
      total == LatchTotalRoutes(m_totalRoutes, Len(interfaces))
      call == [NoCall EXCEPT !.dest = dest, !.cands = interfaces,
                             !.idx = m_currentInterfaceIndex,
                             !.oob = (m_currentInterfaceIndex >= Len(interfaces))]
  IN /\ ~halted
     /\ run.length < MaxSelections
     /\ ~NoRoutes(interfaces)
     /\ \E selectedInterface \in SelectedInterfaces(interfaces, m_currentInterfaceIndex) :
          IF selectedInterface = Crashed
          THEN /\ halted' = TRUE
               /\ last' = [call EXCEPT !.kind = "Crash"]
          ELSE /\ halted' = FALSE
               /\ IF ~ipv4Aggregated
                  THEN last' = [call EXCEPT !.kind = "NoIpv4",
                                            !.iface = selectedInterface]
                  ELSE last' = [call EXCEPT
                                  !.kind = "Route",
                                  !.iface = selectedInterface,
                                  !.numAddresses = numAddresses,
                                  !.source = RouteSource(numAddresses, selectedInterface),
                                  !.gateway = GetGatewayForInterface(routes, selectedInterface, dest)]
     /\ m_totalRoutes' = total
     /\ m_currentInterfaceIndex' = NextIndex(m_currentInterfaceIndex, total)
     /\ prev' = Previous
        /\ run' = IF run.fixed /\ run.dest \in {-1, dest}
               THEN [fixed |-> TRUE, dest |-> dest, length |-> run.length + 1,
                     picks |-> CountPick(run.picks, Len(interfaces),
                                         m_currentInterfaceIndex)]
               ELSE NoRun
     /\ UNCHANGED <<routes, ipv4Aggregated, observePairs, attrWritten, lookup,
                    relayVars>>

Next ==
  \/ \E r \in InstalledRoutes, interface \in Ifaces :
       AddNetworkRouteTo(r[1], r[2], interface)
  \/ \E index \in 1 .. MaxRoutes : RemoveRoute(index)
  \/ AggregateIpv4
  \/ \E dest \in PacketDests : RouteOutputFallback(dest)
  \/ \E dest \in PacketDests, numAddresses \in 0 .. 1 : RouteOutputSelect(dest, numAddresses)

\* The routing operations: table configuration and RouteOutput.
Spec == Init /\ [][Next]_vars

\* The routing operations and writes of the RoundRobinIndex attribute.
AttributeNext ==
  \/ Next
  \/ \E value \in AttributeValues : SetRoundRobinIndex(value)

AttributeSpec == Init /\ [][AttributeNext]_vars

\* The routing operations, observed two calls at a time.
PairSpec == PairInit /\ [][Next]_vars

\* Ipv4StaticRouting::AddNetworkRouteTo (network, mask, nextHop, interface)
\* with any next hop.
AddNetworkRouteVia(network, mask, nextHop, interface) ==
  LET route == [dest |-> network, mask |-> mask,
                gateway |-> nextHop, interface |-> interface]
  IN /\ ~halted
     /\ Len(routes) < MaxViaRoutes
     /\ \A i \in 1 .. Len(routes) : routes[i] # route
     /\ routes' = Append(routes, route)
     /\ run' = IF last.kind = "None" THEN run ELSE NoRun
     /\ last' = Stale(last)
     /\ prev' = IF observePairs THEN Brief(Stale(prev)) ELSE prev
     /\ UNCHANGED <<m_currentInterfaceIndex, m_totalRoutes, ipv4Aggregated,
                    halted, observePairs, attrWritten, lookup, relayVars>>

GatewayNext ==
  \/ \E r \in InstalledRoutes, nextHop \in NextHops, interface \in LookupIfaces :
       AddNetworkRouteVia(r[1], r[2], nextHop, interface)
  \/ AggregateIpv4
  \/ \E dest \in PacketDests : RouteOutputFallback(dest)
  \/ \E dest \in PacketDests, numAddresses \in 0 .. 1 : RouteOutputSelect(dest, numAddresses)

\* RouteOutput over tables whose routes name any next hop.
GatewaySpec == Init /\ [][GatewayNext]_vars

\* ------------------------------------------------ lookups on their own

\* Ipv4StaticRouting::AddNetworkRouteTo with any destination, mask and
\* interface.
InstallRoute(dest, mask, interface) ==
  LET route == [dest |-> dest, mask |-> mask,
                gateway |-> GatewayOn(interface), interface |-> interface]
  IN /\ Len(routes) < LookupMaxRoutes
     /\ \A i \in 1 .. Len(routes) : routes[i] # route
     /\ routes' = Append(routes, route)
     /\ lookup' = NoLookup
     /\ UNCHANGED <<m_currentInterfaceIndex, m_totalRoutes, ipv4Aggregated,
                    halted, last, prev, observePairs, attrWritten, run,
                    relayVars>>

\* GetRouteInterfacesTo (dest) on the current table.
LookupInterfaces(dest) ==
  /\ lookup' = [called |-> TRUE, dest |-> dest,
                interfaces |-> GetRouteInterfacesTo(routes, dest)]
  /\ UNCHANGED <<engineVars, relayVars>>

LookupNext ==
  \/ \E dest \in Addrs, mask \in Addrs, interface \in LookupIfaces :
       InstallRoute(dest, mask, interface)
  \/ \E dest \in Addrs : LookupInterfaces(dest)

LookupSpec == Init /\ [][LookupNext]_vars

\* ------------------------------------------------- packet relay (NAT)

\* The client-facing path, and the server-facing path of server k.
ClientPath == 0
ServerPath(k) == k
\* The client's address, the relay's own client-facing (virtual) address and
\* the real address of server k.
ClientAddress == 1
VirtualAddress == 2
ServerAddress(k) == 10 + k
RelayAddrs == {ClientAddress, VirtualAddress} \cup {ServerAddress(k) : k \in 1 .. MaxServers}

\* The header checksum over the address fields.
HeaderChecksum(source, destination) == (source + 3 * destination) % 251

\* A header as it arrives: its checksum is valid.
Header(source, destination) ==
  [source |-> source, destination |-> destination,
   checksum |-> HeaderChecksum(source, destination)]

\* Round-robin select: the cursor is taken modulo the candidate count before
\* use; the result is <<selected candidate, cursor afterwards>>.
RelaySelect(candidates, cursor) ==
  LET index == cursor % Len(candidates)
  IN <<candidates[index + 1], (index + 1) % Len(candidates)>>

\* A client-origin header sent on to the real address of the chosen server.
RewriteClientOrigin(packet, endpoint) ==
  [source |-> packet.source, destination |-> endpoint.realAddress,
   checksum |-> HeaderChecksum(packet.source, endpoint.realAddress)]

\* RewriteServerOrigin leaving the source as it came.
RewriteSourceKept(packet) == packet

\* A server-origin header sent back under the relay's own address.
RewriteServerOrigin(packet) ==
  [source |-> VirtualAddress, destination |-> packet.destination,
   checksum |-> HeaderChecksum(VirtualAddress, packet.destination)]

\* A start signal is honoured whatever the state.
StartAllowedAlways(state) == TRUE

\* The configuration check of a start signal.
StartAllowed(state) == state = "Configured"

\* setEndpoints (clientEndpoint, serverEndpoints) with n server endpoints.
SetEndpoints(n) ==
  /\ relayState \in {"Created", "Configured", "Stopped"}
  /\ relayState' = "Configured"
  /\ clientEndpoint' = [pathId |-> ClientPath, realAddress |-> ClientAddress]
  /\ serverEndpoints' = [k \in 1 .. n |->
                           [pathId |-> ServerPath(k), realAddress |-> ServerAddress(k)]]
  /\ arrival' = NoArrival
  /\ UNCHANGED <<engineVars, lookup, relayCursor, lastStart>>

\* The start signal.
Start ==
  /\ lastStart' = [from |-> relayState, ok |-> StartAllowed(relayState)]
  /\ relayState' = IF StartAllowed(relayState) THEN "Running" ELSE relayState
  /\ UNCHANGED <<engineVars, lookup, clientEndpoint, serverEndpoints,
                 relayCursor, arrival>>

\* The stop signal.
Stop ==
  /\ relayState = "Running"
  /\ relayState' = "Stopped"
  /\ UNCHANGED <<engineVars, lookup, clientEndpoint, serverEndpoints,
                 relayCursor, lastStart, arrival>>

\* onPacketArrival (ingressPathId, packet) while intercepting.  networkLayer
\* says whether the frame is of the protocol the relay is configured for.
OnPacketArrival(ingress, packet, networkLayer) ==
  LET seen == [kind |-> "Passed", ingress |-> ingress, packet |-> packet,
               consumed |-> FALSE, egress |-> -1, out |-> packet,
               report |-> "None"]
  IN /\ relayState = "Running"
     /\ \/ ingress = ClientPath
        \/ \E k \in 1 .. Len(serverEndpoints) : serverEndpoints[k].pathId = ingress
     /\ IF ~networkLayer
        THEN /\ arrival' = seen
             /\ UNCHANGED relayCursor
        ELSE IF ingress = ClientPath
        THEN IF Len(serverEndpoints) = 0
             THEN /\ arrival' = [seen EXCEPT !.kind = "Dropped", !.consumed = TRUE,
                                             !.report = "NoPathAvailable"]
                  /\ UNCHANGED relayCursor
             ELSE LET choice == RelaySelect(serverEndpoints, relayCursor)
                  IN /\ arrival' = [seen EXCEPT
                                      !.kind = "Emitted", !.consumed = TRUE,
                                      !.egress = choice[1].pathId,
                                      !.out = RewriteClientOrigin(packet, choice[1])]
                     /\ relayCursor' = choice[2]
        ELSE /\ arrival' = [seen EXCEPT !.kind = "Emitted", !.consumed = TRUE,
                                        !.egress = clientEndpoint.pathId,
                                        !.out = RewriteServerOrigin(packet)]
             /\ UNCHANGED relayCursor
     /\ UNCHANGED <<engineVars, lookup, relayState, clientEndpoint,
                    serverEndpoints, lastStart>>

RelayNext ==
  \/ \E n \in 0 .. MaxServers : SetEndpoints(n)
  \/ Start
  \/ Stop
  \/ \E ingress \in {ClientPath} \cup {ServerPath(k) : k \in 1 .. MaxServers},
        source \in RelayAddrs, destination \in RelayAddrs, networkLayer \in BOOLEAN :
       OnPacketArrival(ingress, Header(source, destination), networkLayer)

RelaySpec == Init /\ [][RelayNext]_vars

\* ------------------------------------------------------------ claims

\* Bit b of the bit pattern x.
Bit(x, b) == (x \div (2 ^ b)) % 2

\* The entry covers dest: they agree on every bit the entry's mask sets.
Covers(route, dest) ==
  \A b \in 0 .. 7 : Bit(route.mask, b) = 1 => Bit(route.dest, b) = Bit(dest, b)

\* The interfaces of the entries of rt that cover dest, in table order.
CoveringInterfaces(rt, dest) ==
  LET covering == SelectSeq(rt, LAMBDA route : Covers(route, dest))
  IN [i \in 1 .. Len(covering) |-> covering[i].interface]

\* The entries of rt that cover dest, in table order.
CoveringEntries(rt, dest) == SelectSeq(rt, LAMBDA route : Covers(route, dest))

\* The elements of a sequence are pairwise different.
Distinct(seq) == \A i, j \in 1 .. Len(seq) : seq[i] = seq[j] => i = j

\* The call read its candidate list inside its bounds and returned.
InBounds(call) == Selected(call) /\ call.kind # "Crash" /\ ~call.oob

\* C1: on a fresh engine whose table is unchanged since the first call, the
\* k-th call for a destination with N candidates selects candidate
\* (k-1) mod N (0-based) of the table-ordered candidate list.
RoundRobinOrder ==
  (run.fixed /\ Selected(last)) =>
    /\ last.cands = CoveringInterfaces(routes, run.dest)
    /\ last.iface = last.cands[((run.length - 1) % Len(last.cands)) + 1]

\* C1 witness: the 4th call of a fixed run over 3 different candidates is
\* back on the first.
RoundRobinWrapped ==
  /\ run.fixed /\ run.length = 4
  /\ Len(last.cands) = 3 /\ Distinct(last.cands)
  /\ last.iface = last.cands[1]

\* C2: every call that selects reads the candidate list at an index below
\* the candidate count and selects one of the candidates.
SelectionInsideCandidates ==
  (Selected(last) /\ ~attrWritten) =>
    /\ last.idx < Len(last.cands)
    /\ \E i \in 1 .. Len(last.cands) : last.cands[i] = last.iface

\* C3: a call for a destination that no table entry covers ends in Fallback.
NoRouteFallback ==
  (last.kind \in {"Fallback", "Route", "NoIpv4", "Crash"}
     /\ \A i \in 1 .. Len(routes) : ~Covers(routes[i], last.dest))
    => last.kind = "Fallback"

\* C3 witness: a fallback with a non-empty table.
FallbackBesideRoutes == last.kind = "Fallback" /\ Len(routes) > 0

\* C4: with the selected interface known to the Ipv4 object, the call ends
\* Unroutable exactly when that interface has no address; a route is never
\* returned for an interface without one.
UnroutableIffNoLocalAddress ==
  (last.kind \in {"Route", "Unroutable"}) =>
    (last.kind = "Unroutable" <=> last.numAddresses = 0)

\* C5: GetRouteInterfacesTo returns, in table order, the interface of each
\* entry that covers the destination and nothing else; nothing at all when
\* no entry covers it.
RoutesToExact ==
  lookup.called => lookup.interfaces = CoveringInterfaces(routes, lookup.dest)

\* C5 witness: a lookup over two entries that returns one of them, by a
\* network match.
LookupKeepsOneOfTwo ==
  /\ lookup.called /\ Len(routes) = 2 /\ Len(lookup.interfaces) = 1
  /\ \E i \in 1 .. 2 : Covers(routes[i], lookup.dest) /\ routes[i].dest # lookup.dest

\* C6: two successive calls for one destination, the table unchanged in
\* between, select different interfaces unless there is one candidate.
NoImmediateRepeat ==
  (/\ InBounds(prev) /\ InBounds(last)
   /\ ~attrWritten
   /\ prev.dest = last.dest
   /\ Distinct(last.cands)
   /\ Len(last.cands) # 1)
    => last.iface # prev.iface

\* C7: after a call that ended in Fallback or in an error, the next call for
\* a destination with candidates, the Ipv4 object present, returns a route.
FailureIsLocal ==
  (/\ prev.kind \in {"Fallback", "NoIpv4"}
   /\ Selected(last) /\ ipv4Aggregated
   /\ ~attrWritten)
    => last.kind = "Route"

\* C8: a client-origin packet leaves on the chosen server's path with its
\* source kept and that server's real address as destination; a
\* server-origin packet leaves on the client-facing path with the relay's
\* own address as source, never a server's real address.
NatTransparency ==
  arrival.kind = "Emitted" =>
    IF arrival.ingress = ClientPath
    THEN \E k \in 1 .. Len(serverEndpoints) :
           /\ arrival.egress = serverEndpoints[k].pathId
           /\ arrival.out.destination = serverEndpoints[k].realAddress
           /\ arrival.out.source = arrival.packet.source
    ELSE /\ arrival.egress = ClientPath
         /\ arrival.out.source = VirtualAddress
         /\ arrival.out.destination = arrival.packet.destination
         /\ \A k \in 1 .. MaxServers : arrival.out.source # ServerAddress(k)

\* C8 witness: the reply of server 2 to the client has been sent on under
\* the relay's address.
ReplyRewritten ==
  /\ arrival.kind = "Emitted" /\ arrival.ingress = ServerPath(2)
  /\ arrival.packet.source = ServerAddress(2)
  /\ arrival.packet.destination = ClientAddress
  /\ arrival.out.source = VirtualAddress

\* C9: a start succeeds only from Configured, and a running relay has its
\* endpoints set.
RelayStartGuard ==
  /\ lastStart.ok => lastStart.from = "Configured"
  /\ relayState = "Running" => clientEndpoint # NoEndpoint

\* C9 witness: a start attempted in Created has failed and left the relay
\* in Created.
StartRefusedInCreated ==
  /\ lastStart = [from |-> "Created", ok |-> FALSE]
  /\ relayState = "Created"

\* C10: after a call that selected, the cursor is below the candidate count
\* that call saw.
CursorInRange ==
  (Selected(last) /\ ~halted /\ ~attrWritten) =>
    m_currentInterfaceIndex < Len(last.cands)

\* C11: a returned route names the gateway of the table entry the selection
\* picked (the entry at the cursor among those covering the destination), on
\* that entry's interface, with that interface's address as source.
DecisionConsistent ==
  (last.kind = "Route" /\ ~last.oob /\ last.numAddresses > 0) =>
    LET picked == CoveringEntries(routes, last.dest)[last.idx + 1]
    IN /\ last.iface = picked.interface
       /\ last.source = LocalAddress(picked.interface)
       /\ last.gateway = picked.gateway

\* The number of bits the mask sets: its prefix length.
PrefixLength(mask) == Cardinality({b \in 0 .. 7 : Bit(mask, b) = 1})

\* The entry covers dest and is its exact address or has the longest mask
\* among the entries of rt that cover dest.
BestCover(rt, route, dest) ==
  /\ Covers(route, dest)
  /\ \/ route.dest = dest
     \/ \A i \in 1 .. Len(rt) :
          Covers(rt[i], dest) => PrefixLength(rt[i].mask) <= PrefixLength(route.mask)

\* C12: GetRouteInterfacesTo returns only the entries that match the
\* destination exactly or with the longest mask among the covering entries,
\* never an entry with a shorter mask beside them.
LongestMaskOnly ==
  lookup.called =>
    LET best == SelectSeq(routes, LAMBDA route : BestCover(routes, route, lookup.dest))
    IN lookup.interfaces = [i \in 1 .. Len(best) |-> best[i].interface]

\* C13: the cursor changes only in a step in which RouteOutput selects, from
\* the cursor value that call read; no other operation writes it.
CursorOnlyBySelection ==
  [][m_currentInterfaceIndex' # m_currentInterfaceIndex =>
       /\ last' # last
       /\ Selected(last')
       /\ last'.idx = m_currentInterfaceIndex]_vars

\* C14: a step in which RouteOutput decides (by Fallback, by a route, by the
\* error return or ending the process) leaves the table as it was: the table
\* is what the route installations and removals made it.
TableReadOnly ==
  [][(last' # last /\ last'.kind \in {"Fallback", "Route", "NoIpv4", "Crash"})
       => routes' = routes]_vars

\* C14 witness: the third decision of a run over a table of three entries
\* has returned a route.
DecidedOverFullTable ==
  /\ run.fixed /\ run.length = 3
  /\ last.kind = "Route"
  /\ Len(routes) = 3

\* C15: a call reaches the selection step (the read at the cursor and the
\* advance) only with a non-empty candidate list, one entry at least
\* covering its destination.
SelectionNeedsCandidates ==
  Selected(last) =>
    /\ Len(last.cands) >= 1
    /\ \E i \in 1 .. Len(routes) : Covers(routes[i], last.dest)

\* C15 witness: a call has selected the one candidate of its destination out
\* of a table of two entries.
SelectedTheOnlyCandidate ==
  /\ last.kind = "Route" /\ ~last.oob
  /\ Len(last.cands) = 1 /\ Len(routes) = 2

\* The sum of a sequence of numbers.
RECURSIVE SumSeq(_)
SumSeq(seq) == IF seq = <<>> THEN 0 ELSE Head(seq) + SumSeq(Tail(seq))

\* C16: in a run over an unchanged table for one destination with N
\* candidates, every call selects one of the N candidates and the numbers of
\* times any two candidates were selected differ by at most 1.
EvenDistribution ==
  (run.fixed /\ run.length > 0) =>
    /\ Len(run.picks) = Len(CoveringEntries(routes, run.dest))
    /\ SumSeq(run.picks) = run.length
    /\ \A i, j \in 1 .. Len(run.picks) : run.picks[i] - run.picks[j] <= 1

\* C16 witness: five calls over three candidates, selected 2, 2 and 1
\* times.
FiveOverThree == run.fixed /\ run.length = 5 /\ run.picks = <<2, 2, 1>>

\* C17: a step in which RouteOutput falls back changes neither the cursor
\* nor the latched route count.
FallbackKeepsSelectionState ==
  [][(last' # last /\ last'.kind = "Fallback")
       => UNCHANGED <<m_currentInterfaceIndex, m_totalRoutes>>]_vars

\* C17 witness: a call has fallen back in the middle of a rotation over two
\* candidates, after the first call of the run.
FallbackInMidRotation ==
  /\ last.kind = "Fallback"
  /\ run.fixed /\ run.length = 1
  /\ m_currentInterfaceIndex = 1 /\ m_totalRoutes = 2

\* C18: m_totalRoutes is 0 at construction; it leaves 0 only in a step in
\* which RouteOutput selects, taking that call's candidate count; once
\* non-zero it never changes, whatever routes are added or removed; so it is
\* non-zero whenever a selecting step has advanced the cursor.
LatchedModulus ==
  /\ m_totalRoutes = 0
  /\ [][/\ m_totalRoutes # 0 => m_totalRoutes' = m_totalRoutes
        /\ m_totalRoutes' # m_totalRoutes =>
             /\ last' # last /\ Selected(last')
             /\ m_totalRoutes' = Len(last'.cands)
        /\ (last' # last /\ Selected(last')) => m_totalRoutes' # 0
        /\ (last' # last /\ ~Selected(last')) => m_totalRoutes' = m_totalRoutes]_vars

\* C18 witness: the count latched at 1 is still 1 after a call that saw
\* three candidates in a table grown since.
LatchOutlivesTable ==
  /\ m_totalRoutes = 1
  /\ Selected(last) /\ Len(last.cands) = 3

====
